---- MODULE Spec2Model ----
(***************************************************************************)
(* A model of polymarket_copy_bot.py: one invocation of main() copies the  *)
(* target account's latest qualifying bet unless the operator already      *)
(* holds that (conditionId, outcomeIndex).  The venue (activity feed,      *)
(* holdings, posted orders) is the environment; runs follow one another.   *)
(***************************************************************************)
EXTENDS Integers, Sequences, FiniteSets, TLC

VARIABLES
    feed,                  \* venue: the target's activity, most recent first
    held,                  \* venue: the operator's positions as /positions returns them
    posted,                \* venue: orders received through post_order, in order
    PRIVATE_KEY,           \* configuration of the running process
    DRY_RUN,
    BET_AMOUNT,
    pc,                    \* position of the running process in main()
    runNo,                 \* number of the running invocation
    calls,                 \* network calls this invocation has made, with their status
    latest,                \* main(): latest
    target_position_bets,  \* main(): target_position_bets
    my_positions,          \* main(): my_positions
    decision,              \* what main() decided: none, NoQualifyingActivity, AlreadyHeld, PlaceOrder
    exit,                  \* how the invocation ended
    prev,                  \* history variable: the last earlier invocation that reached a decision
    arg,                   \* input of the function under test (function specifications)
    ret                    \* its result

vars == <<feed, held, posted, PRIVATE_KEY, DRY_RUN, BET_AMOUNT, pc, runNo, calls,
          latest, target_position_bets, my_positions, decision, exit, prev, arg, ret>>

worldVars == <<feed, held, posted>>
configVars == <<PRIVATE_KEY, DRY_RUN, BET_AMOUNT>>
fnVars == <<arg, ret>>

----------------------------------------------------------------------------
(* Bounds *)

MaxFeed == 2          \* entries of the target's feed in the run model
MaxRuns == 2          \* invocations in one behaviour
MaxResponse == 2      \* entries of an /activity response given to get_latest_bet
MaxPositions == 2     \* entries of a /positions response given to already_has_position

----------------------------------------------------------------------------
(* Program constants *)

FILTER_BITCOIN_UP_DOWN == TRUE
BITCOIN_UP_DOWN_PREFIX == "Bitcoin Up or Down"
SHOW_TARGET_POSITION_BETS == TRUE
TARGET_POSITION_BETS_LIMIT == 100
LATEST_BET_LIMIT == 20
BUY == "BUY"
FOK == "FOK"

\* Python's None, for latest and for "no order"
None == [None |-> TRUE]

----------------------------------------------------------------------------
(* Python helpers *)

\* d.get(k) == v, for a v that is not None
GetEq(d, k, v) == k \in DOMAIN d /\ d[k] = v

\* d.get(k, default)
Get(d, k, default) == IF k \in DOMAIN d THEN d[k] ELSE default

\* s.startswith(p)
startswith(s, p) == Len(s) >= Len(p) /\ SubSeq(s, 1, Len(p)) = p

Min(a, b) == IF a <= b THEN a ELSE b

\* what GET /activity?limit=n answers from the venue's feed f
ActivityResponse(f, n) == SubSeq(f, 1, Min(n, Len(f)))

----------------------------------------------------------------------------
(* get_latest_bet: the loop over response.json() *)

is_buy_trade(activity) == GetEq(activity, "type", "TRADE") /\ GetEq(activity, "side", BUY)

passes_title_filter(activity) ==
    IF FILTER_BITCOIN_UP_DOWN
    THEN startswith(Get(activity, "title", ""), BITCOIN_UP_DOWN_PREFIX)
    ELSE TRUE

\* a plausible slip: the loop does not stop at its first match
RECURSIVE scan_last_bet(_, _)
scan_last_bet(response, i) ==
    IF i < 1 THEN None
    ELSE IF is_buy_trade(response[i]) /\ passes_title_filter(response[i]) THEN response[i]
    ELSE scan_last_bet(response, i - 1)

get_last_bet(response) == scan_last_bet(response, Len(response))

RECURSIVE scan_latest_bet(_, _)
scan_latest_bet(response, i) ==
    IF i > Len(response) THEN None
    ELSE IF ~is_buy_trade(response[i]) THEN scan_latest_bet(response, i + 1)
    ELSE IF ~passes_title_filter(response[i]) THEN scan_latest_bet(response, i + 1)
    ELSE response[i]

get_latest_bet(response) == scan_latest_bet(response, 1)

----------------------------------------------------------------------------
(* get_target_bets_for_position: the filter over response.json() *)

same_position(activity, condition_id, outcome_index) ==
    /\ GetEq(activity, "type", "TRADE")
    /\ GetEq(activity, "conditionId", condition_id)
    /\ GetEq(activity, "outcomeIndex", outcome_index)

RECURSIVE collect_same_position(_, _, _, _)
collect_same_position(response, i, condition_id, outcome_index) ==
    IF i > Len(response) THEN <<>>
    ELSE IF same_position(response[i], condition_id, outcome_index)
         THEN <<response[i]>> \o collect_same_position(response, i + 1, condition_id, outcome_index)
         ELSE collect_same_position(response, i + 1, condition_id, outcome_index)

get_target_bets_for_position(response, condition_id, outcome_index) ==
    collect_same_position(response, 1, condition_id, outcome_index)

----------------------------------------------------------------------------
(* already_has_position: membership of the formatted key *)

\* a plausible slip: the key formatted without its separator
key_no_separator(c, o) == c \o ToString(o)

\* key = lambda c, o: f"{c}_{o}"
key(c, o) == c \o "_" \o ToString(o)

\* a plausible slip: only the first position is looked at
first_position_only(positions, conditionId, outcomeIndex) ==
    /\ Len(positions) > 0
    /\ key(conditionId, outcomeIndex) = key(positions[1].conditionId, positions[1].outcomeIndex)

already_has_position(positions, conditionId, outcomeIndex) ==
    LET target_key == key(conditionId, outcomeIndex)
        my_keys == { key(positions[i].conditionId, positions[i].outcomeIndex) :
                        i \in DOMAIN positions }
    IN  target_key \in my_keys

----------------------------------------------------------------------------
(* The state before any invocation: nothing running, nothing read *)

NoProcess ==
    /\ calls = <<>>
    /\ latest = None /\ target_position_bets = <<>> /\ my_positions = <<>>
    /\ decision = "none" /\ exit = "none"

NoRun ==
    /\ PRIVATE_KEY = "" /\ DRY_RUN = TRUE /\ BET_AMOUNT = 1
    /\ NoProcess /\ runNo = 0 /\ prev = None

EmptyVenue == feed = <<>> /\ held = <<>> /\ posted = <<>>

RECURSIVE SeqsUpTo(_, _)
SeqsUpTo(S, n) ==
    IF n = 0 THEN { <<>> }
    ELSE LET shorter == SeqsUpTo(S, n - 1)
         IN  shorter \cup { Append(q, x) : q \in shorter, x \in S }

----------------------------------------------------------------------------
(* get_latest_bet applied to every /activity response within the bounds *)

ResponseTitles ==
    { "Bitcoin Up or Down - Nov 3", "Bitcoin Up or Down", "Election Winner 2024",
      "Bitcoin Up", "bitcoin up or down - Nov 3" }

ResponseActivities ==
    [ type : {"TRADE", "REDEEM"}, side : {"BUY", "SELL"}, title : ResponseTitles,
      size : {1, 90} ]
    \cup { [type |-> "TRADE", side |-> "BUY", size |-> 90],
           [type |-> "REDEEM", title |-> "Bitcoin Up or Down - Nov 3", size |-> 90],
           [side |-> "BUY", title |-> "Bitcoin Up or Down - Nov 3", size |-> 90] }

InitFeed ==
    /\ NoRun /\ EmptyVenue
    /\ pc = "call"
    /\ arg \in [ response : SeqsUpTo(ResponseActivities, MaxResponse) ]
    /\ ret = None

CallGetLatestBet ==
    /\ pc = "call"
    /\ ret' = get_latest_bet(arg.response)
    /\ pc' = "returned"
    /\ UNCHANGED <<worldVars, configVars, runNo, calls, latest, target_position_bets,
                   my_positions, decision, exit, prev, arg>>

NextFeed == CallGetLatestBet

SpecFeed == InitFeed /\ [][NextFeed]_vars

----------------------------------------------------------------------------
(* already_has_position applied to every /positions response and key within
   the bounds.  The condition ids are chosen so that their formatted keys
   come close to one another. *)

ConditionIds == { "M", "M1", "M_1", "M1_1" }
OutcomeIndexes == { 0, 1, 10 }

Position(c, o) ==
    [ conditionId |-> c, outcomeIndex |-> o, title |-> "Bitcoin Up or Down - Nov 3",
      outcome |-> IF o = 0 THEN "Up" ELSE "Down", size |-> 1 ]

HoldsPositions == { Position(c, o) : c \in ConditionIds, o \in OutcomeIndexes }

InitHolds ==
    /\ NoRun /\ EmptyVenue
    /\ pc = "call"
    /\ arg \in [ my_positions : SeqsUpTo(HoldsPositions, MaxPositions),
                 conditionId : ConditionIds, outcomeIndex : OutcomeIndexes ]
    /\ ret = None

CallAlreadyHasPosition ==
    /\ pc = "call"
    /\ ret' = already_has_position(arg.my_positions, arg.conditionId, arg.outcomeIndex)
    /\ pc' = "returned"
    /\ UNCHANGED <<worldVars, configVars, runNo, calls, latest, target_position_bets,
                   my_positions, decision, exit, prev, arg>>

NextHolds == CallAlreadyHasPosition

SpecHolds == InitHolds /\ [][NextHolds]_vars

----------------------------------------------------------------------------
(* The venue of the run model: one market of two outcomes, the activity the target can
   produce and the positions the operator can hold *)

AssetOf(c, o) == "A_" \o c \o "_" \o ToString(o)

Activity(type, side, title, c, o, size, price) ==
    [ type |-> type, side |-> side, title |-> title, conditionId |-> c,
      outcomeIndex |-> o, outcome |-> IF o = 0 THEN "Up" ELSE "Down",
      size |-> size, price |-> price, asset |-> AssetOf(c, o) ]

\* prices in cents
TargetActivities ==
    { Activity("TRADE", "BUY", "Bitcoin Up or Down - Nov 3", "M1", 0, 5, 50),
      Activity("TRADE", "BUY", "Bitcoin Up or Down - Nov 3", "M1", 0, 90, 10),
      Activity("TRADE", "SELL", "Bitcoin Up or Down - Nov 3", "M1", 0, 5, 60),
      Activity("TRADE", "BUY", "Bitcoin Up or Down - Nov 3", "M1", 1, 5, 50),
      [ type |-> "TRADE", side |-> "BUY", title |-> "Bitcoin Up or Down - Nov 3",
        conditionId |-> "M1", outcomeIndex |-> 0, asset |-> AssetOf("M1", 0) ] }

\* the position a filled order for asset t shows as
PositionOfAsset(t) ==
    LET a == CHOOSE x \in TargetActivities : x.asset = t /\ "outcome" \in DOMAIN x
    IN  Position(a.conditionId, a.outcomeIndex)

InitialHoldings ==
    { <<>>, << Position("M1", 0) >>, << Position("M1", 1) >>,
      << Position("M1", 1), Position("M1", 0) >> }

BetAmounts == { 1, 25 }
PrivateKeys == { "", "0xkey" }

\* POLYMARKET_BET_AMOUNT is whatever the operator's .env says and stays so;
\* the key and the dry-run flag are what the operator changes between runs
Init ==
    /\ PRIVATE_KEY = "" /\ DRY_RUN = TRUE /\ BET_AMOUNT \in BetAmounts
    /\ NoProcess /\ runNo = 0 /\ prev = None
    /\ feed = <<>> /\ posted = <<>>
    /\ held \in InitialHoldings
    /\ pc = "idle"
    /\ arg = None /\ ret = None

----------------------------------------------------------------------------
(* The venue's own steps.  The script reads the feed in get_latest_bet and in
   get_target_bets_for_position and the holdings in get_positions, so a change
   of the venue shows the same whether it comes anywhere before a read or just
   before it: the feed changes between invocations and between the two reads
   of it, the holdings between invocations. *)

\* the target account acts: a new entry at the head of its feed
TargetTrades ==
    /\ pc \in {"idle", "history"}
    /\ Len(feed) < MaxFeed
    /\ \E a \in TargetActivities : feed' = <<a>> \o feed
    /\ UNCHANGED <<held, posted, configVars, pc, runNo, calls, latest,
                   target_position_bets, my_positions, decision, exit, prev, fnVars>>

\* a posted order has filled and now shows in the operator's positions
VenueReflects ==
    /\ pc = "idle"
    /\ \E i \in DOMAIN posted :
         LET p == PositionOfAsset(posted[i].order.token_id)
         IN  /\ \A j \in DOMAIN held : held[j] # p
             /\ held' = Append(held, p)
    /\ UNCHANGED <<feed, posted, configVars, pc, runNo, calls, latest,
                   target_position_bets, my_positions, decision, exit, prev, fnVars>>

----------------------------------------------------------------------------
(* One invocation of the script *)

runVars == <<latest, target_position_bets, my_positions, decision>>

Call(api, ok) == calls' = Append(calls, [api |-> api, ok |-> ok])

\* the order this invocation has posted, or None
OrderOfRun(r, orders) ==
    IF \E i \in DOMAIN orders : orders[i].run = r
    THEN orders[CHOOSE i \in DOMAIN orders : orders[i].run = r].order
    ELSE None

\* what is remembered of an invocation that reached a decision
RunRecord ==
    [ latest |-> latest, my_positions |-> my_positions,
      dry |-> DRY_RUN, history |-> target_position_bets,
      decision |-> decision, exit |-> exit, order |-> OrderOfRun(runNo, posted) ]

\* load_dotenv() and the module-level configuration of a new process
Startup ==
    /\ pc = "idle"
    /\ runNo < MaxRuns
    /\ runNo' = runNo + 1
    /\ PRIVATE_KEY' \in PrivateKeys
    /\ DRY_RUN' \in BOOLEAN
    /\ pc' = "main"
    /\ UNCHANGED <<worldVars, BET_AMOUNT, calls, runVars, exit, prev, fnVars>>

\* the process is gone, and its locals with it
ProcessEnds ==
    /\ pc = "exited"
    /\ pc' = "idle"
    /\ calls' = <<>>
    /\ latest' = None /\ target_position_bets' = <<>> /\ my_positions' = <<>>
    /\ decision' = "none" /\ exit' = "none"
    /\ prev' = IF decision \in {"AlreadyHeld", "PlaceOrder"} THEN RunRecord ELSE prev
    /\ UNCHANGED <<worldVars, configVars, runNo, fnVars>>

\* a plausible slip: the key is asked for only when the run is to execute
CheckPrivateKeyLiveOnly ==
    /\ pc = "main"
    /\ IF PRIVATE_KEY = "" /\ ~DRY_RUN
       THEN pc' = "exited" /\ exit' = "SystemExit"
       ELSE pc' = "profile" /\ exit' = exit
    /\ UNCHANGED <<worldVars, configVars, runNo, calls, runVars, prev, fnVars>>

\* if not PRIVATE_KEY: raise SystemExit(...)
CheckPrivateKey ==
    /\ pc = "main"
    /\ IF PRIVATE_KEY = ""
       THEN pc' = "exited" /\ exit' = "SystemExit"
       ELSE pc' = "profile" /\ exit' = exit
    /\ UNCHANGED <<worldVars, configVars, runNo, calls, runVars, prev, fnVars>>

\* target_name = get_profile_name(TARGET_ADDRESS)
GetProfileName ==
    /\ pc = "profile"
    /\ \E ok \in BOOLEAN :
         /\ Call("public-profile", ok)
         /\ IF ok THEN pc' = "latest" /\ exit' = exit
                  ELSE pc' = "exited" /\ exit' = "HTTPError"
    /\ UNCHANGED <<worldVars, configVars, runNo, runVars, prev, fnVars>>

\* a plausible slip: a failed read of the activity is taken for an empty one
GetLatestBetSwallowsFailure ==
    /\ pc = "latest"
    /\ \E ok \in BOOLEAN :
         /\ Call("activity?limit=20", ok)
         /\ latest' = IF ok THEN get_latest_bet(ActivityResponse(feed, LATEST_BET_LIMIT)) ELSE None
         /\ IF latest' = None
            THEN pc' = "exited" /\ exit' = "return" /\ decision' = "NoQualifyingActivity"
            ELSE pc' = "history" /\ exit' = exit /\ decision' = decision
    /\ UNCHANGED <<worldVars, configVars, runNo, target_position_bets, my_positions,
                   prev, fnVars>>

\* latest = get_latest_bet(TARGET_ADDRESS); if not latest: return;
\* then the reads of latest["title"], ["outcome"], ["size"], ["price"]
GetLatestBet ==
    /\ pc = "latest"
    /\ \E ok \in BOOLEAN :
         /\ Call("activity?limit=20", ok)
         /\ IF ~ok
            THEN /\ pc' = "exited" /\ exit' = "HTTPError"
                 /\ UNCHANGED <<latest, decision>>
            ELSE /\ latest' = get_latest_bet(ActivityResponse(feed, LATEST_BET_LIMIT))
                 /\ IF latest' = None
                    THEN pc' = "exited" /\ exit' = "return" /\ decision' = "NoQualifyingActivity"
                    ELSE IF {"title", "outcome", "size", "price"} \subseteq DOMAIN latest'
                    THEN pc' = "history" /\ exit' = exit /\ decision' = decision
                    ELSE pc' = "exited" /\ exit' = "Error" /\ decision' = decision
    /\ UNCHANGED <<worldVars, configVars, runNo, target_position_bets, my_positions,
                   prev, fnVars>>

\* if SHOW_TARGET_POSITION_BETS: target_position_bets = get_target_bets_for_position(...)
GetTargetBets ==
    /\ pc = "history"
    /\ IF SHOW_TARGET_POSITION_BETS
       THEN \E ok \in BOOLEAN :
              /\ Call("activity?limit=100", ok)
              /\ IF ok
                 THEN /\ target_position_bets' =
                           get_target_bets_for_position(
                               ActivityResponse(feed, TARGET_POSITION_BETS_LIMIT),
                               latest.conditionId, latest.outcomeIndex)
                      /\ pc' = "positions" /\ exit' = exit
                 ELSE /\ pc' = "exited" /\ exit' = "HTTPError"
                      /\ UNCHANGED target_position_bets
       ELSE /\ pc' = "positions"
            /\ UNCHANGED <<calls, exit, target_position_bets>>
    /\ UNCHANGED <<worldVars, configVars, runNo, latest, my_positions, decision,
                   prev, fnVars>>

\* a plausible slip: a local ledger of posted orders also stops the run
GetPositionsWithLedger ==
    /\ pc = "positions"
    /\ \E ok \in BOOLEAN :
         /\ Call("positions", ok)
         /\ IF ~ok
            THEN /\ pc' = "exited" /\ exit' = "HTTPError"
                 /\ UNCHANGED <<my_positions, decision>>
            ELSE /\ my_positions' = held
                 /\ IF \/ already_has_position(held, latest.conditionId, latest.outcomeIndex)
                       \/ \E i \in DOMAIN posted : posted[i].order.token_id = latest.asset
                    THEN /\ decision' = "AlreadyHeld"
                         /\ pc' = "exited" /\ exit' = "return"
                    ELSE /\ decision' = "PlaceOrder"
                         /\ pc' = "client" /\ exit' = exit
    /\ UNCHANGED <<worldVars, configVars, runNo, latest, target_position_bets, prev, fnVars>>

\* a plausible slip: the run goes on only when the target's history is not empty
GetPositionsReadsHistory ==
    /\ pc = "positions"
    /\ \E ok \in BOOLEAN :
         /\ Call("positions", ok)
         /\ IF ~ok
            THEN /\ pc' = "exited" /\ exit' = "HTTPError"
                 /\ UNCHANGED <<my_positions, decision>>
            ELSE /\ my_positions' = held
                 /\ IF \/ already_has_position(held, latest.conditionId, latest.outcomeIndex)
                       \/ \E i \in DOMAIN target_position_bets :
                             GetEq(target_position_bets[i], "side", "SELL")
                    THEN /\ decision' = "AlreadyHeld"
                         /\ pc' = "exited" /\ exit' = "return"
                    ELSE /\ decision' = "PlaceOrder"
                         /\ pc' = "client" /\ exit' = exit
    /\ UNCHANGED <<worldVars, configVars, runNo, latest, target_position_bets, prev, fnVars>>

\* a plausible slip: the outcome's label is passed where its index is meant
GetPositionsPassesOutcomeLabel ==
    /\ pc = "positions"
    /\ \E ok \in BOOLEAN :
         /\ Call("positions", ok)
         /\ IF ~ok
            THEN /\ pc' = "exited" /\ exit' = "HTTPError"
                 /\ UNCHANGED <<my_positions, decision>>
            ELSE /\ my_positions' = held
                 /\ IF already_has_position(held, latest.conditionId, latest.outcome)
                    THEN /\ decision' = "AlreadyHeld"
                         /\ pc' = "exited" /\ exit' = "return"
                    ELSE /\ decision' = "PlaceOrder"
                         /\ pc' = "client" /\ exit' = exit
    /\ UNCHANGED <<worldVars, configVars, runNo, latest, target_position_bets, prev, fnVars>>

\* my_positions = get_positions(FUNDER_ADDRESS);
\* if already_has_position(my_positions, ...): return
GetPositions ==
    /\ pc = "positions"
    /\ \E ok \in BOOLEAN :
         /\ Call("positions", ok)
         /\ IF ~ok
            THEN /\ pc' = "exited" /\ exit' = "HTTPError"
                 /\ UNCHANGED <<my_positions, decision>>
            ELSE /\ my_positions' = held
                 /\ IF already_has_position(held, latest.conditionId, latest.outcomeIndex)
                    THEN /\ decision' = "AlreadyHeld"
                         /\ pc' = "exited" /\ exit' = "return"
                    ELSE /\ decision' = "PlaceOrder"
                         /\ pc' = "client" /\ exit' = exit
    /\ UNCHANGED <<worldVars, configVars, runNo, latest, target_position_bets, prev, fnVars>>

\* client = get_clob_client(): ClobClient(...), derive_api_key(), set_api_creds()
GetClobClient ==
    /\ pc = "client"
    /\ \E ok \in BOOLEAN :
         /\ Call("derive_api_key", ok)
         /\ IF ok
            THEN pc' = "place" /\ exit' = exit
            ELSE /\ pc' = "exited" /\ exit' = "Error"
    /\ UNCHANGED <<worldVars, configVars, runNo, runVars, prev, fnVars>>

\* a plausible slip: the order copies the size of the target's trade
MarketOrderArgsCopiesSize(bet, amount) ==
    [ token_id |-> bet.asset, amount |-> bet.size, side |-> BUY, order_type |-> FOK ]

\* place_bet's MarketOrderArgs(token_id=latest["asset"], amount=BET_AMOUNT, side=BUY, order_type=FOK)
MarketOrderArgs(bet, amount) ==
    [ token_id |-> bet.asset, amount |-> amount, side |-> BUY, order_type |-> FOK ]

\* a plausible slip: the order is posted in a dry run as well
PlaceBetIgnoresDryRun ==
    /\ pc = "place"
    /\ Call("post_order", TRUE)
    /\ posted' = Append(posted, [order |-> MarketOrderArgs(latest, BET_AMOUNT), run |-> runNo])
    /\ pc' = "exited" /\ exit' = "return"
    /\ UNCHANGED <<feed, held, configVars, runNo, runVars, prev, fnVars>>

\* if DRY_RUN: print(...) else: place_bet(client, latest["asset"], BET_AMOUNT)
PlaceBet ==
    /\ pc = "place"
    /\ \/ /\ DRY_RUN
          /\ pc' = "exited" /\ exit' = "return"
          /\ UNCHANGED <<posted, calls>>
       \/ /\ ~DRY_RUN
          /\ Call("post_order", TRUE)
          /\ posted' = Append(posted, [order |-> MarketOrderArgs(latest, BET_AMOUNT), run |-> runNo])
          /\ pc' = "exited" /\ exit' = "return"
       \/ /\ ~DRY_RUN                         \* post_order raises: the venue refused
          /\ Call("post_order", FALSE)
          /\ pc' = "exited" /\ exit' = "Error"
          /\ UNCHANGED posted
       \/ /\ ~DRY_RUN                         \* create_market_order raises
          /\ pc' = "exited" /\ exit' = "Error"
          /\ UNCHANGED <<posted, calls>>
    /\ UNCHANGED <<feed, held, configVars, runNo, runVars, prev, fnVars>>

Next ==
    \/ TargetTrades
    \/ VenueReflects
    \/ Startup
    \/ CheckPrivateKey
    \/ GetProfileName
    \/ GetLatestBet
    \/ GetTargetBets
    \/ GetPositions
    \/ GetClobClient
    \/ PlaceBet
    \/ ProcessEnds

Spec == Init /\ [][Next]_vars

----------------------------------------------------------------------------
(* What the claims speak of *)

\* the snapshot holds a position of the bet's market and outcome
InSnapshot(positions, bet) ==
    \E i \in DOMAIN positions :
        /\ positions[i].conditionId = bet.conditionId
        /\ positions[i].outcomeIndex = bet.outcomeIndex

\* this invocation has read the operator's holdings
PositionsRead == \E i \in DOMAIN calls : calls[i] = [api |-> "positions", ok |-> TRUE]

PostOrderCalls == { i \in DOMAIN calls : calls[i].api = "post_order" }

UpstreamReads == { "public-profile", "activity?limit=20", "activity?limit=100", "positions" }

InRun == pc \in {"main", "profile", "latest", "history", "positions", "client", "place", "exited"}

----------------------------------------------------------------------------
(* C1: no invocation decides PlaceOrder, or posts an order, when the holdings
   it has read contain a position with the market and outcome of its latest
   qualifying trade. *)
C1_NoOrderWhenHeld ==
    (InRun /\ PositionsRead /\ InSnapshot(my_positions, latest)) =>
        /\ decision # "PlaceOrder"
        /\ OrderOfRun(runNo, posted) = None
        /\ PostOrderCalls = {}

\* a live run whose snapshot holds the key behind another outcome of the market
C1_Witness ==
    /\ pc = "exited" /\ ~DRY_RUN /\ PositionsRead
    /\ Len(my_positions) = 2 /\ InSnapshot(my_positions, latest)
    /\ my_positions[1].outcomeIndex # latest.outcomeIndex
    /\ decision = "AlreadyHeld"

----------------------------------------------------------------------------
(* C2: when an earlier invocation decided PlaceOrder for a trade and a later
   one, with the same latest trade, reads holdings that contain its key, the
   later one ends AlreadyHeld and posts nothing. *)
C2_AlreadyHeldOnRerun ==
    (/\ InRun /\ prev # None /\ prev.decision = "PlaceOrder"
     /\ latest = prev.latest
     /\ PositionsRead /\ InSnapshot(my_positions, latest)) =>
        /\ decision = "AlreadyHeld"
        /\ pc = "exited" /\ exit = "return"
        /\ OrderOfRun(runNo, posted) = None

\* the earlier run posted its order, the venue shows it, the later live run skips
C2_Witness ==
    /\ pc = "exited" /\ ~DRY_RUN
    /\ prev # None /\ prev.decision = "PlaceOrder" /\ prev.order # None
    /\ ~InSnapshot(prev.my_positions, prev.latest)
    /\ latest = prev.latest
    /\ PositionsRead /\ InSnapshot(my_positions, latest)
    /\ decision = "AlreadyHeld"

----------------------------------------------------------------------------
(* C4: a read that fails is the last call of its invocation: the invocation
   has ended with the HTTP error, has decided nothing and posted nothing, and
   no call is made twice. *)
C4_FailedReadAborts ==
    InRun =>
        /\ \A i \in DOMAIN calls :
             (calls[i].api \in UpstreamReads /\ ~calls[i].ok) =>
                 /\ i = Len(calls)
                 /\ pc = "exited" /\ exit = "HTTPError"
                 /\ decision = "none"
                 /\ OrderOfRun(runNo, posted) = None
        /\ \A i, j \in DOMAIN calls : calls[i].api = calls[j].api => i = j

\* a live run whose last read, of the holdings, failed
C4_Witness ==
    /\ pc = "exited" /\ ~DRY_RUN /\ latest # None
    /\ Len(calls) = 4
    /\ calls[4] = [api |-> "positions", ok |-> FALSE]
    /\ exit = "HTTPError"

----------------------------------------------------------------------------
(* C5 as stated: the run is aborted for the missing key exactly when it is to
   execute (dry run off) and no key is configured. *)
C5_AbortOnlyWhenLive ==
    (InRun /\ pc # "main") =>
        ((exit = "SystemExit") <=> (~DRY_RUN /\ PRIVATE_KEY = ""))

(* C5 as amended: the run is aborted for the missing key exactly when no key
   is configured, whatever the dry-run flag, and then before any network call
   and before any decision. *)
C5_AbortWheneverKeyMissing ==
    (InRun /\ pc # "main") =>
        /\ (exit = "SystemExit") <=> (PRIVATE_KEY = "")
        /\ (exit = "SystemExit") => (calls = <<>> /\ decision = "none" /\ pc = "exited")

\* a dry run without a key, aborted before any call
C5_Witness ==
    /\ pc = "exited" /\ exit = "SystemExit"
    /\ DRY_RUN /\ PRIVATE_KEY = ""
    /\ calls = <<>>

----------------------------------------------------------------------------
(* C6: an invocation with the dry-run flag set never calls post_order and
   leaves no order at the venue, also when it decided PlaceOrder. *)
C6_DryRunPostsNothing ==
    (InRun /\ DRY_RUN) =>
        /\ OrderOfRun(runNo, posted) = None
        /\ PostOrderCalls = {}

\* a dry run that decided PlaceOrder and returned
C6_Witness ==
    /\ pc = "exited" /\ exit = "return" /\ DRY_RUN
    /\ decision = "PlaceOrder"
    /\ ~InSnapshot(my_positions, latest)
    /\ OrderOfRun(runNo, posted) = None

----------------------------------------------------------------------------
(* C7: two invocations with the same latest trade, the same holdings and the
   same configuration decide the same, and when both return they post the
   same order or none, whatever the position-history read gave each. *)
C7_HistoryDoesNotDecide ==
    (/\ pc = "exited" /\ prev # None
     /\ decision \in {"AlreadyHeld", "PlaceOrder"}
     /\ latest = prev.latest /\ my_positions = prev.my_positions
     /\ DRY_RUN = prev.dry) =>
        /\ decision = prev.decision
        /\ (exit = "return" /\ prev.exit = "return") => OrderOfRun(runNo, posted) = prev.order

\* two such live runs whose position histories differ, each posting the order
C7_Witness ==
    /\ pc = "exited" /\ prev # None /\ exit = "return" /\ prev.exit = "return"
    /\ latest = prev.latest /\ my_positions = prev.my_positions
    /\ DRY_RUN = prev.dry /\ ~DRY_RUN
    /\ target_position_bets # prev.history
    /\ decision = "PlaceOrder" /\ prev.decision = "PlaceOrder"
    /\ OrderOfRun(runNo, posted) # None

----------------------------------------------------------------------------
(* C9: every order an invocation posts is a fill-or-kill BUY of the asset of
   its latest trade for BET_AMOUNT, whatever the size and price of that
   trade, and an invocation calls post_order at most once. *)
C9_OrderIsFixedAmountBuy ==
    /\ \A i \in DOMAIN posted :
         /\ posted[i].order.amount = BET_AMOUNT
         /\ posted[i].order.side = "BUY"
         /\ posted[i].order.order_type = "FOK"
         /\ (InRun /\ posted[i].run = runNo) => posted[i].order.token_id = latest.asset
         /\ \A j \in DOMAIN posted : posted[i].run = posted[j].run => i = j
    /\ Cardinality(PostOrderCalls) <= 1

\* an order for 1 posted after a target trade of size 90
C9_Witness ==
    /\ pc = "exited" /\ OrderOfRun(runNo, posted) # None
    /\ latest.size = 90 /\ BET_AMOUNT = 1
    /\ OrderOfRun(runNo, posted).amount = 1

----------------------------------------------------------------------------
EarlierOrderFor(bet) ==
    \E i \in DOMAIN posted : posted[i].run < runNo /\ posted[i].order.token_id = bet.asset

(* C10: orders posted earlier for the same asset stop nothing: an invocation
   whose holdings snapshot lacks the key decides PlaceOrder, and a live one
   that returns has posted its order, so that two orders for one key are at
   the venue. *)
C10_NoGuardAgainstResubmission ==
    (/\ InRun /\ PositionsRead /\ ~InSnapshot(my_positions, latest)
     /\ EarlierOrderFor(latest)) =>
        /\ decision = "PlaceOrder"
        /\ (pc = "exited" /\ exit = "return" /\ ~DRY_RUN) => OrderOfRun(runNo, posted) # None

\* two orders for the same asset from two invocations, none showing in the holdings
C10_Witness ==
    /\ \E i, j \in DOMAIN posted :
         /\ posted[i].run # posted[j].run
         /\ posted[i].order.token_id = posted[j].order.token_id
         /\ \A k \in DOMAIN held : held[k] # PositionOfAsset(posted[i].order.token_id)

----------------------------------------------------------------------------
\* the titles of ResponseTitles that begin with "Bitcoin Up or Down"
PrefixedTitles == { "Bitcoin Up or Down - Nov 3", "Bitcoin Up or Down" }

Qualifies(a) ==
    /\ "type" \in DOMAIN a /\ a.type = "TRADE"
    /\ "side" \in DOMAIN a /\ a.side = "BUY"
    /\ "title" \in DOMAIN a /\ a.title \in PrefixedTitles

(* C3: get_latest_bet returns the entry at the smallest index of the response
   that is a TRADE, a BUY and titled with the prefix, whatever the sizes of
   the entries, and None exactly when no entry of the response is one. *)
C3_FirstQualifying ==
    (pc = "returned" /\ "response" \in DOMAIN arg) =>
        LET r == arg.response
            Q == { i \in DOMAIN r : Qualifies(r[i]) }
        IN  /\ (ret = None) <=> (Q = {})
            /\ Q # {} => ret = r[CHOOSE i \in Q : \A k \in Q : i <= k]

\* Scenario D with a larger later entry: the first BUY trade is titled outside
\* the prefix, the second inside it, and the second is returned.
C3_Witness ==
    /\ pc = "returned" /\ "response" \in DOMAIN arg
    /\ Len(arg.response) = 2
    /\ arg.response[1] = [type |-> "TRADE", side |-> "BUY", title |-> "Election Winner 2024", size |-> 90]
    /\ arg.response[2] = [type |-> "TRADE", side |-> "BUY", title |-> "Bitcoin Up or Down - Nov 3", size |-> 1]
    /\ ret = arg.response[2]

----------------------------------------------------------------------------
(* C8: already_has_position is true exactly when some position of the
   snapshot has the same conditionId (as a string) and the same outcomeIndex
   (as an integer); distinct pairs are never taken for one another. *)
C8_ExactKeyMatch ==
    (pc = "returned" /\ "my_positions" \in DOMAIN arg) =>
        (ret = TRUE) <=>
            \E i \in DOMAIN arg.my_positions :
                /\ arg.my_positions[i].conditionId = arg.conditionId
                /\ arg.my_positions[i].outcomeIndex = arg.outcomeIndex

\* a snapshot holding the near misses "M1"/0 and "M"/1 of the key "M"/10
\* (and not the key itself) is answered false
C8_Witness ==
    /\ pc = "returned" /\ "my_positions" \in DOMAIN arg
    /\ arg.conditionId = "M" /\ arg.outcomeIndex = 10
    /\ arg.my_positions = << Position("M1", 0), Position("M", 1) >>
    /\ ret = FALSE

====
